---- MODULE Spec2Model ----
(***************************************************************************)
(* life-3d: a three-dimensional Game of Life.                              *)
(*                                                                         *)
(* The model follows src/life-3d/src/game.rs (Cell, Cursor, GameOfLife)    *)
(* and the frame loop of src/life-3d/src/main.rs (tick scheduling, random  *)
(* cursor mode, rendering, key handlers).                                   *)
(*                                                                         *)
(* Numbers.  The arena of the program is 128 cells wide; the model keeps   *)
(* the arena size as the definition ARENA_SIZE and scales it down.  Time   *)
(* is counted in ticks of 0.05 s, so max_tick_progress = 0.25 s is 5 ticks *)
(* and a frame time of 0.3 s is 6 ticks.  A u32 is kept bit-exact as two   *)
(* 16-bit limbs <<hi, lo>> (value hi * 2^16 + lo).                         *)
(***************************************************************************)
EXTENDS Integers, Sequences, FiniteSets, TLC

\* ---------------------------------------------------------------- bounds
\* Side of the cubic arena (game.rs:100 has 128; scaled down here).
ARENA_SIZE == 5
\* Largest frame time the frame clock delivers, in ticks of 0.05 s.
MaxDelta == 6
\* Number of key events and random-cursor draws delivered in one run of Spec.
MaxInputs == 3

\* ------------------------------------------------------------- constants
\* main.rs:127  let max_tick_progress = 0.25;   (0.25 s = 5 ticks)
MAX_TICK_PROGRESS == 5
\* main.rs:255, 259  tick_speed.clamp(1, 5)
MIN_TICK_SPEED == 1
MAX_TICK_SPEED == 5

\* ------------------------------------------------------------------ Cell
\* game.rs:11  enum Cell { Alive, Dead }
Cell == {"Alive", "Dead"}

\* game.rs:88  Cell::is_alive
is_alive(c) == c = "Alive"

\* ------------------------------------------------------------------- u32
Limb == 2 ^ 16

\* A small natural number as a u32.
u32_from(n) == <<0, n>>

\* game.rs:38  (self.x as i32) + d overflows i32, for d in {-1, +1}: the sum
\* leaves i32 only from i32::MAX = 0x7FFFFFFF upwards and from
\* i32::MIN = 0x80000000 downwards.  A build with overflow checks panics
\* there; a build without them wraps.
i32_add_overflows(v, d) ==
    \/ v = <<Limb \div 2 - 1, Limb - 1>> /\ d = 1
    \/ v = <<Limb \div 2, 0>> /\ d = -1

\* game.rs:38  ((self.x as i32) + d) as u32, for d in {-1, +1}: the casts
\* reinterpret the bits, so the sum is taken modulo 2^32.
u32_add_i32(v, d) ==
    LET lo == v[2] + d
    IN  IF lo < 0 THEN <<(v[1] + Limb - 1) % Limb, Limb - 1>>
        ELSE IF lo >= Limb THEN <<(v[1] + 1) % Limb, 0>>
        ELSE <<v[1], lo>>

\* `v as usize` is a valid index of an array of ARENA_SIZE elements.
u32_is_index(v) == v[1] = 0 /\ v[2] < ARENA_SIZE

\* `v as usize`, for a value below 2^16.
u32_as_usize(v) == v[2]

\* `i == v as usize` for an array index i.
u32_eq_usize(v, i) == v[1] = 0 /\ v[2] = i

\* ---------------------------------------------------------------- Cursor
\* game.rs:25  Cursor::new
Cursor_new ==
    [x |-> u32_from(ARENA_SIZE \div 2),
     y |-> u32_from(ARENA_SIZE \div 2),
     z |-> u32_from(ARENA_SIZE \div 2)]

\* move_x adding dx twice (game.rs:38).
move_x_twice(cur, dx) == [cur EXCEPT !.x = u32_add_i32(u32_add_i32(cur.x, dx), dx)]

\* game.rs:37  Cursor::move_x
move_x(cur, dx) == [cur EXCEPT !.x = u32_add_i32(cur.x, dx)]

\* game.rs:41  Cursor::move_y
move_y(cur, dy) == [cur EXCEPT !.y = u32_add_i32(cur.y, dy)]

\* game.rs:45  Cursor::move_z
move_z(cur, dz) == [cur EXCEPT !.z = u32_add_i32(cur.z, dz)]

\* game.rs:37-47: the i32 addition of a move overflows
move_x_overflows(cur, dx) == i32_add_overflows(cur.x, dx)
move_y_overflows(cur, dy) == i32_add_overflows(cur.y, dy)
move_z_overflows(cur, dz) == i32_add_overflows(cur.z, dz)

\* The cursor addresses a cell of the arena.
CursorInArena(cur) ==
    u32_is_index(cur.x) /\ u32_is_index(cur.y) /\ u32_is_index(cur.z)

\* ------------------------------------------------------------ GameOfLife
Index == 0 .. (ARENA_SIZE - 1)

\* game.rs:101  type CellsArray, indexed cells[y][x][z]
CellsArray == [Index -> [Index -> [Index -> Cell]]]

\* game.rs:108  GameOfLife::new
GameOfLife_new == [y \in Index |-> [x \in Index |-> [z \in Index |-> "Dead"]]]

\* game.rs:234  GameOfLife::cell
cell(cs, x, y, z) == cs[y][x][z]

\* set_cell indexing cells[x][y][z] (game.rs:239).
set_cell_x_first(cs, x, y, z, c) == [cs EXCEPT ![x][y][z] = c]

\* game.rs:238  GameOfLife::set_cell
set_cell(cs, x, y, z, c) == [cs EXCEPT ![y][x][z] = c]

\* clamp_coords subtracting x below the arena instead of adding it (game.rs:118).
clamp_coords_minus(x) ==
    LET arena_max_index == ARENA_SIZE - 1
    IN  IF x < 0 THEN arena_max_index - x
        ELSE IF x > arena_max_index THEN x - arena_max_index
        ELSE x

\* clamp_coords mirroring at the edge it crossed: -1 to 1 and N to N - 2
\* (game.rs:118-120).
clamp_coords_mirror(x) ==
    LET arena_max_index == ARENA_SIZE - 1
    IN  IF x < 0 THEN 0 - x
        ELSE IF x > arena_max_index THEN 2 * arena_max_index - x
        ELSE x

\* game.rs:114  GameOfLife::clamp_coords, before the conversion to usize
clamp_coords(x) ==
    LET arena_max_index == ARENA_SIZE - 1
    IN  IF x < 0 THEN arena_max_index + x
        ELSE IF x > arena_max_index THEN x - arena_max_index
        ELSE x

\* game.rs:129  the three nested offset loops, minus the centre
Offsets ==
    { o \in (-1 .. 1) \X (-1 .. 1) \X (-1 .. 1) : ~(o[1] = 0 /\ o[2] = 0 /\ o[3] = 0) }

\* living_neighbours without the `continue` for the centre (game.rs:132-134).
living_neighbours_with_centre(cs, cell_x, cell_y, cell_z) ==
    Cardinality({ o \in (-1 .. 1) \X (-1 .. 1) \X (-1 .. 1) :
        is_alive(cell(cs, clamp_coords(cell_x + o[2]),
                          clamp_coords(cell_y + o[1]),
                          clamp_coords(cell_z + o[3]))) })

\* living_neighbours with the offset loops running over -1..=2 (game.rs:129-131).
living_neighbours_wide(cs, cell_x, cell_y, cell_z) ==
    Cardinality({ o \in (-1 .. 2) \X (-1 .. 2) \X (-1 .. 2) :
        /\ ~(o[1] = 0 /\ o[2] = 0 /\ o[3] = 0)
        /\ is_alive(cell(cs, clamp_coords(cell_x + o[2]),
                             clamp_coords(cell_y + o[1]),
                             clamp_coords(cell_z + o[3]))) })

\* game.rs:126  GameOfLife::living_neighbours; an offset is <<y, x, z>>
living_neighbours(cs, cell_x, cell_y, cell_z) ==
    Cardinality({ o \in Offsets :
        is_alive(cell(cs, clamp_coords(cell_x + o[2]),
                          clamp_coords(cell_y + o[1]),
                          clamp_coords(cell_z + o[3]))) })

\* new_cell with survival on 3..=5 neighbours instead of 3 or 5 (game.rs:162).
new_cell_survive4(c, live_neighbours) ==
    IF is_alive(c)
    THEN IF live_neighbours < 3 THEN "Dead"
         ELSE IF live_neighbours >= 3 /\ live_neighbours <= 5 THEN "Alive"
         ELSE "Dead"
    ELSE IF live_neighbours = 5 THEN "Alive" ELSE "Dead"

\* new_cell with the birth test as `live_neighbours < 5` (game.rs:168).
new_cell_born_below5(c, live_neighbours) ==
    IF is_alive(c)
    THEN IF live_neighbours < 3 THEN "Dead"
         ELSE IF live_neighbours = 3 \/ live_neighbours = 5 THEN "Alive"
         ELSE "Dead"
    ELSE IF live_neighbours < 5 THEN "Alive" ELSE "Dead"

\* game.rs:157  the new state of one cell; new_cells starts all Dead
new_cell(c, live_neighbours) ==
    IF is_alive(c)
    THEN IF live_neighbours < 3 THEN "Dead"
         ELSE IF live_neighbours = 3 \/ live_neighbours = 5 THEN "Alive"
         ELSE IF live_neighbours > 5 THEN "Dead"
         ELSE "Dead"
    ELSE IF live_neighbours = 5 THEN "Alive" ELSE "Dead"

\* game.rs:150  GameOfLife::update_game
update_game(cs) ==
    [y \in Index |-> [x \in Index |-> [z \in Index |->
        new_cell(cs[y][x][z], living_neighbours(cs, x, y, z))]]]

\* game.rs:181  GameOfLife::to_real_coords, in units of cell_size
to_real_coords(x) == x - (ARENA_SIZE \div 2)

\* game.rs:188  the scan order of render: y outermost, then x, then z
ScanOrder ==
    [i \in 1 .. (ARENA_SIZE * ARENA_SIZE * ARENA_SIZE) |->
        [y |-> (i - 1) \div (ARENA_SIZE * ARENA_SIZE),
         x |-> ((i - 1) \div ARENA_SIZE) % ARENA_SIZE,
         z |-> (i - 1) % ARENA_SIZE]]

\* render without the test against the cursor's coordinates (game.rs:195-198).
render_with_cursor_cell(cs, cur) ==
    LET Emitted(p) == is_alive(cs[p.y][p.x][p.z])
        kept == SelectSeq(ScanOrder, Emitted)
    IN  [i \in 1 .. Len(kept) |->
            <<to_real_coords(kept[i].x), to_real_coords(kept[i].y),
              to_real_coords(kept[i].z)>>]

\* game.rs:185  GameOfLife::render: the instance list it leaves in the renderer
render(cs, cur) ==
    LET Emitted(p) ==
            /\ is_alive(cs[p.y][p.x][p.z])
            /\ \/ ~u32_eq_usize(cur.x, p.x)
               \/ ~u32_eq_usize(cur.y, p.y)
               \/ ~u32_eq_usize(cur.z, p.z)
        kept == SelectSeq(ScanOrder, Emitted)
    IN  [i \in 1 .. Len(kept) |->
            <<to_real_coords(kept[i].x), to_real_coords(kept[i].y),
              to_real_coords(kept[i].z)>>]

\* flip_at_cursor writing Alive whatever the cell holds (game.rs:218-222).
flip_at_cursor_set_alive(cs, cur) ==
    set_cell(cs, u32_as_usize(cur.x), u32_as_usize(cur.y), u32_as_usize(cur.z), "Alive")

\* game.rs:213  GameOfLife::flip_at_cursor, for a cursor inside the arena
flip_at_cursor(cs, cur) ==
    LET x == u32_as_usize(cur.x)
        y == u32_as_usize(cur.y)
        z == u32_as_usize(cur.z)
    IN  set_cell(cs, x, y, z, IF is_alive(cell(cs, x, y, z)) THEN "Dead" ELSE "Alive")

\* ----------------------------------------------------------------- state
VARIABLES
    cells,             \* GameOfLife.cells
    cursor,            \* Cursor.x, .y, .z
    instance_offsets,  \* Renderer.instance_offsets
    tick_progress,     \* main.rs:128, in ticks
    tick_speed,        \* main.rs:129
    paused,            \* main.rs:130
    random_cursor,     \* main.rs:131
    pc,                \* position in the frame loop: "tick", "render", "events"
    panicked,          \* an index was out of bounds: the program has ended
    last_access,       \* coordinates the cursor code last passed to cell / set_cell
    nsteps,            \* update_game calls made by the tick of the current frame
    inputs,            \* key events and random draws delivered so far
    new_cells,         \* game.rs:151  the buffer of an update_game under way
    scan_at            \* the place in ScanOrder its loops have reached, else 0

vars == <<cells, cursor, instance_offsets, tick_progress, tick_speed, paused,
          random_cursor, pc, panicked, last_access, nsteps, inputs, new_cells, scan_at>>

\* No update_game is under way: its buffer does not exist.
NoBuffer == <<>>

NoAccess == <<>>

\* The coordinates of the cursor as flip_at_cursor and Cursor::render pass them.
CursorCoords(cur) == <<cur.x, cur.y, cur.z>>

\* main.rs:124-137: everything but the grid, before the first frame
InitRest ==
    /\ cursor = Cursor_new
    /\ instance_offsets = <<>>
    /\ tick_progress = MAX_TICK_PROGRESS
    /\ tick_speed = 1
    /\ paused = TRUE
    /\ random_cursor = FALSE
    /\ pc = "tick"
    /\ panicked = FALSE
    /\ last_access = NoAccess
    /\ nsteps = 0
    /\ inputs = 0
    /\ new_cells = NoBuffer
    /\ scan_at = 0

\* main.rs:113-137: the state before the first frame
Init ==
    /\ cells = GameOfLife_new
    /\ InitRest

\* main.rs:176-197: the move random-cursor mode makes for a draw of 1..=6
random_move(cur, stuff) ==
    CASE stuff = 1 -> move_x(cur, -1)
      [] stuff = 2 -> move_x(cur, 1)
      [] stuff = 3 -> move_z(cur, 1)
      [] stuff = 4 -> move_z(cur, -1)
      [] stuff = 5 -> move_y(cur, 1)
      [] stuff = 6 -> move_y(cur, -1)

\* main.rs:176-197: the i32 addition of that move overflows
random_move_overflows(cur, stuff) ==
    CASE stuff = 1 -> move_x_overflows(cur, -1)
      [] stuff = 2 -> move_x_overflows(cur, 1)
      [] stuff = 3 -> move_z_overflows(cur, 1)
      [] stuff = 4 -> move_z_overflows(cur, -1)
      [] stuff = 5 -> move_y_overflows(cur, 1)
      [] stuff = 6 -> move_y_overflows(cur, -1)

\* accumulate without the `!paused` test (main.rs:171).
accumulate_ignoring_pause(progress, speed, is_paused, dt) == progress + speed * dt

\* accumulate with the pause test inverted, `paused` for `!paused` (main.rs:171).
accumulate_when_paused(progress, speed, is_paused, dt) ==
    IF is_paused THEN progress + speed * dt ELSE progress

\* main.rs:172  tick_progress += tick_speed as f64 * delta_time, unless paused
accumulate(progress, speed, is_paused, dt) ==
    IF ~is_paused THEN progress + speed * dt ELSE progress

\* tick_due against ten times the threshold (a slipped decimal point, main.rs:127).
tick_due_late(progress) == progress >= MAX_TICK_PROGRESS * 10

\* main.rs:167  the tick is due
tick_due(progress) == progress >= MAX_TICK_PROGRESS

\* reset_progress carrying the overshoot into the next tick (main.rs:168).
reset_progress_carry(progress) == progress - MAX_TICK_PROGRESS

\* reset_progress forgotten (main.rs:168).
reset_progress_kept(progress) == progress

\* main.rs:168  tick_progress = 0.0
reset_progress(progress) == 0

\* TickStep sparing the cell under the cursor, as render does (main.rs:169):
\* a step that reads the cursor.
TickStep_sparing_cursor_cell ==
    /\ pc = "tick" /\ ~panicked
    /\ UNCHANGED <<new_cells, scan_at>>
    /\ tick_due(tick_progress)
    /\ tick_progress' = reset_progress(tick_progress)
    /\ cells' = IF CursorInArena(cursor)
                THEN set_cell(update_game(cells), u32_as_usize(cursor.x),
                              u32_as_usize(cursor.y), u32_as_usize(cursor.z),
                              cell(cells, u32_as_usize(cursor.x), u32_as_usize(cursor.y),
                                   u32_as_usize(cursor.z)))
                ELSE update_game(cells)
    /\ nsteps' = 1
    /\ pc' = "render"
    /\ UNCHANGED <<cursor, instance_offsets, tick_speed, paused, random_cursor,
                   panicked, last_access, inputs>>

\* main.rs:167-170: the tick is due: reset the progress and step the game
TickStep ==
    /\ pc = "tick" /\ ~panicked
    /\ UNCHANGED <<new_cells, scan_at>>
    /\ tick_due(tick_progress)
    /\ tick_progress' = reset_progress(tick_progress)
    /\ cells' = update_game(cells)
    /\ nsteps' = 1
    /\ pc' = "render"
    /\ UNCHANGED <<cursor, instance_offsets, tick_speed, paused, random_cursor,
                   panicked, last_access, inputs>>

\* main.rs:170-174: not due, random-cursor mode off; dt is the frame's delta_time
TickWait(dt) ==
    /\ pc = "tick" /\ ~panicked
    /\ UNCHANGED <<new_cells, scan_at>>
    /\ ~tick_due(tick_progress)
    /\ ~random_cursor
    /\ tick_progress' = accumulate(tick_progress, tick_speed, paused, dt)
    /\ nsteps' = 0
    /\ pc' = "render"
    /\ UNCHANGED <<cells, cursor, instance_offsets, tick_speed, paused, random_cursor,
                   panicked, last_access, inputs>>

\* main.rs:170-200: not due, random-cursor mode on: move the cursor, then flip
TickRandom(dt, stuff) ==
    /\ pc = "tick" /\ ~panicked
    /\ UNCHANGED <<new_cells, scan_at>>
    /\ ~tick_due(tick_progress)
    /\ random_cursor
    /\ tick_progress' = accumulate(tick_progress, tick_speed, paused, dt)
    /\ nsteps' = 0
    /\ IF random_move_overflows(cursor, stuff)
       THEN \/ /\ panicked' = TRUE
               /\ UNCHANGED <<cells, cursor, pc, last_access>>
            \/ /\ cursor' = random_move(cursor, stuff)
               /\ last_access' = CursorCoords(cursor')
               /\ panicked' = TRUE
               /\ UNCHANGED <<cells, pc>>
       ELSE /\ cursor' = random_move(cursor, stuff)
            /\ last_access' = CursorCoords(cursor')
            /\ IF CursorInArena(cursor')
               THEN /\ cells' = flip_at_cursor(cells, cursor')
                    /\ pc' = "render"
                    /\ UNCHANGED panicked
               ELSE /\ panicked' = TRUE
                    /\ UNCHANGED <<cells, pc>>
    /\ UNCHANGED <<instance_offsets, tick_speed, paused, random_cursor>>

\* main.rs:203-225: game.render, then cursor.render (which reads the cursor's cell)
Render ==
    /\ pc = "render" /\ ~panicked
    /\ UNCHANGED <<new_cells, scan_at>>
    /\ instance_offsets' = render(cells, cursor)
    /\ last_access' = CursorCoords(cursor)
    /\ IF CursorInArena(cursor)
       THEN pc' = "events" /\ UNCHANGED panicked
       ELSE panicked' = TRUE /\ UNCHANGED pc
    /\ UNCHANGED <<cells, cursor, tick_progress, tick_speed, paused, random_cursor,
                   nsteps>>

\* KeyPress with the events polled before game.render as well (main.rs:227).
KeyPress_before_render ==
    /\ pc \in {"render", "events"} /\ ~panicked
    /\ UNCHANGED <<new_cells, scan_at>>
    /\ UNCHANGED <<instance_offsets, tick_progress, pc, nsteps>>

\* main.rs:245: a key press reaches the handler while the events are drained
KeyPress ==
    /\ pc = "events" /\ ~panicked
    /\ UNCHANGED <<new_cells, scan_at>>
    /\ UNCHANGED <<instance_offsets, tick_progress, pc, nsteps>>

\* main.rs:247  Space
KeySpace ==
    /\ KeyPress
    /\ paused' = ~paused
    /\ UNCHANGED <<cells, cursor, tick_speed, random_cursor, panicked, last_access>>

\* main.rs:250  Enter
KeyEnter ==
    /\ KeyPress
    /\ last_access' = CursorCoords(cursor)
    /\ IF CursorInArena(cursor)
       THEN cells' = flip_at_cursor(cells, cursor) /\ UNCHANGED panicked
       ELSE panicked' = TRUE /\ UNCHANGED cells
    /\ UNCHANGED <<cursor, tick_speed, paused, random_cursor>>

\* i32::clamp
clamp(v, lo, hi) == IF v < lo THEN lo ELSE IF v > hi THEN hi ELSE v

\* increase_speed without the clamp (main.rs:255).
increase_speed_unclamped(speed) == speed + 1

\* main.rs:254-255  tick_speed += 1; tick_speed = tick_speed.clamp(1, 5)
increase_speed(speed) == clamp(speed + 1, MIN_TICK_SPEED, MAX_TICK_SPEED)

\* main.rs:258-259  tick_speed -= 1; tick_speed = tick_speed.clamp(1, 5)
decrease_speed(speed) == clamp(speed - 1, MIN_TICK_SPEED, MAX_TICK_SPEED)

\* main.rs:253  KpAdd
KeyKpAdd ==
    /\ KeyPress
    /\ tick_speed' = increase_speed(tick_speed)
    /\ UNCHANGED <<cells, cursor, paused, random_cursor, panicked, last_access>>

\* main.rs:257  KpSubtract
KeyKpSubtract ==
    /\ KeyPress
    /\ tick_speed' = decrease_speed(tick_speed)
    /\ UNCHANGED <<cells, cursor, paused, random_cursor, panicked, last_access>>

\* A key that only moves the cursor: `moved` is the cursor after the move,
\* `overflows` tells whether the move's i32 addition overflows (then the
\* build decides between a panic and the wrapped sum).
KeyMove(moved, overflows) ==
    /\ KeyPress
    /\ IF overflows
       THEN \/ panicked' = TRUE /\ UNCHANGED cursor
            \/ cursor' = moved /\ UNCHANGED panicked
       ELSE cursor' = moved /\ UNCHANGED panicked
    /\ UNCHANGED <<cells, tick_speed, paused, random_cursor, last_access>>

\* main.rs:261  W
KeyW == KeyMove(move_x(cursor, -1), move_x_overflows(cursor, -1))

\* main.rs:264  S
KeyS == KeyMove(move_x(cursor, 1), move_x_overflows(cursor, 1))

\* main.rs:267  A
KeyA == KeyMove(move_z(cursor, 1), move_z_overflows(cursor, 1))

\* main.rs:270  D
KeyD == KeyMove(move_z(cursor, -1), move_z_overflows(cursor, -1))

\* main.rs:273  Q
KeyQ == KeyMove(move_y(cursor, 1), move_y_overflows(cursor, 1))

\* main.rs:276  E
KeyE == KeyMove(move_y(cursor, -1), move_y_overflows(cursor, -1))

\* main.rs:279  R
KeyR ==
    /\ KeyPress
    /\ random_cursor' = ~random_cursor
    /\ UNCHANGED <<cells, cursor, tick_speed, paused, panicked, last_access>>

\* main.rs:288-292, 139: the events are drained and the loop starts the next frame
EndFrame ==
    /\ pc = "events" /\ ~panicked
    /\ UNCHANGED <<new_cells, scan_at>>
    /\ pc' = "tick"
    /\ UNCHANGED <<cells, cursor, instance_offsets, tick_progress, tick_speed, paused,
                   random_cursor, panicked, last_access, nsteps, inputs>>

\* ------------------------------------------------------------ environment
\* Frame times the frame clock delivers (main.rs:140-141), in ticks.
Deltas == 0 .. MaxDelta

\* One more key event or random draw is delivered; a run of Spec delivers at
\* most MaxInputs of them.
Input == inputs < MaxInputs /\ inputs' = inputs + 1

\* The whole program: any frame time, any key, any random draw.
Next ==
    \/ TickStep
    \/ \E dt \in Deltas : TickWait(dt)
    \/ Input /\ \E dt \in Deltas, stuff \in 1 .. 6 : TickRandom(dt, stuff)
    \/ Render /\ UNCHANGED inputs
    \/ Input /\ KeySpace
    \/ Input /\ KeyEnter
    \/ Input /\ KeyKpAdd
    \/ Input /\ KeyKpSubtract
    \/ Input /\ KeyW
    \/ Input /\ KeyS
    \/ Input /\ KeyA
    \/ Input /\ KeyD
    \/ Input /\ KeyQ
    \/ Input /\ KeyE
    \/ Input /\ KeyR
    \/ EndFrame

Spec == Init /\ [][Next]_vars

\* The tick scheduler alone: any frame time and any number of Space, KpAdd and
\* KpSubtract presses; no key that moves the cursor or edits the grid.
SchedNext ==
    \/ TickStep
    \/ \E dt \in Deltas : TickWait(dt)
    \/ Render /\ UNCHANGED inputs
    \/ KeySpace /\ UNCHANGED inputs
    \/ KeyKpAdd /\ UNCHANGED inputs
    \/ KeyKpSubtract /\ UNCHANGED inputs
    \/ EndFrame

SpecSched == Init /\ [][SchedNext]_vars

\* ------------------------------------------------ frames that keep arriving
\* main.rs:140-142: a delta_time bounded below by one unit of time
PositiveDeltas == Deltas \ {0}

\* The frame loop with the scheduler keys, every frame taking some time.
LiveNext ==
    \/ TickStep
    \/ \E dt \in PositiveDeltas : TickWait(dt)
    \/ Render /\ UNCHANGED inputs
    \/ KeySpace /\ UNCHANGED inputs
    \/ KeyKpAdd /\ UNCHANGED inputs
    \/ KeyKpSubtract /\ UNCHANGED inputs
    \/ EndFrame

\* The loop does not stop: the tick, the rendering and the end of the event
\* drain (poll_events yields finitely many events) each happen in every frame.
SpecLive ==
    /\ Init
    /\ [][LiveNext]_vars
    /\ WF_vars(TickStep)
    /\ WF_vars(\E dt \in PositiveDeltas : TickWait(dt))
    /\ WF_vars(Render /\ UNCHANGED inputs)
    /\ WF_vars(EndFrame)

\* ------------------------------------------------------------ seeded grids
\* game.rs:249-253: a grid built as the repository's test builds one, by
\* set_cell(x, y, z, Alive) on a new game for every <<x, y, z>> of a set.
GridOf(alive) ==
    [y \in Index |-> [x \in Index |-> [z \in Index |->
        IF <<x, y, z>> \in alive THEN "Alive" ELSE "Dead"]]]

\* game.rs:251-253: the three cells of neighbour_count_test
TestPattern == { <<3, 4, 3>>, <<3, 4, 4>>, <<2, 2, 3>> }

\* The 2 x 2 x 2 block of cells whose least corner is <<lo, lo, lo>>.
Block(lo) == {lo, lo + 1} \X {lo, lo + 1} \X {lo, lo + 1}

AllCells == Index \X Index \X Index

\* Seeds: every pattern inside the block at the low corner of the arena and
\* inside the block at its high corner (corner, edge, face and interior
\* cells, with 0 to 8 of them alive), the full arena, and the test's pattern.
SeedPatterns ==
    (SUBSET Block(0)) \cup (SUBSET Block(ARENA_SIZE - 2)) \cup {AllCells, TestPattern}

\* A seeded grid about to be stepped.  The program is in such a state when
\* the tick has become due over an empty grid (progress 0.25 s), Space has
\* then paused it, and the key events of that same frame have drawn the
\* pattern with the cursor, ending with the cursor back on the centre cell
\* (last flipped there): the instance list is still the empty one of that
\* frame's render, and the next frame begins.
InitSeeded ==
    /\ cells \in { GridOf(alive) : alive \in SeedPatterns }
    /\ cursor = Cursor_new
    /\ instance_offsets = <<>>
    /\ tick_progress = MAX_TICK_PROGRESS
    /\ tick_speed = 1
    /\ paused = TRUE
    /\ random_cursor = FALSE
    /\ pc = "tick"
    /\ panicked = FALSE
    /\ last_access = CursorCoords(Cursor_new)
    /\ nsteps = 0
    /\ inputs = 0
    /\ new_cells = NoBuffer
    /\ scan_at = 0

\* The frame loop with no key pressed: the first frame steps the seeded grid.
GridNext ==
    \/ TickStep
    \/ \E dt \in Deltas : TickWait(dt)
    \/ Render /\ UNCHANGED inputs
    \/ EndFrame

SpecGrid == InitSeeded /\ [][GridNext]_vars

\* ------------------------------------------------- update_game, cell by cell
\* The grid an in-place scan would read at place i of ScanOrder: the cells
\* before i already hold their new state.
InPlaceGrid(cs, nc, i) ==
    [y \in Index |-> [x \in Index |-> [z \in Index |->
        IF (y * ARENA_SIZE + x) * ARENA_SIZE + z + 1 < i THEN nc[y][x][z] ELSE cs[y][x][z]]]]

\* scan_cell counting the neighbours in the grid as updated so far, as a scan
\* writing in place would (game.rs:156).
scan_cell_in_place(cs, nc, i) ==
    LET p == ScanOrder[i]
        live_neighbours == living_neighbours(InPlaceGrid(cs, nc, i), p.x, p.y, p.z)
    IN  IF is_alive(cs[p.y][p.x][p.z])
        THEN IF live_neighbours < 3 THEN set_cell(nc, p.x, p.y, p.z, "Dead")
             ELSE IF live_neighbours = 3 \/ live_neighbours = 5
                  THEN set_cell(nc, p.x, p.y, p.z, "Alive")
             ELSE IF live_neighbours > 5 THEN set_cell(nc, p.x, p.y, p.z, "Dead")
             ELSE nc
        ELSE IF live_neighbours = 5 THEN set_cell(nc, p.x, p.y, p.z, "Alive")
             ELSE set_cell(nc, p.x, p.y, p.z, "Dead")

\* game.rs:153-174  one pass of the loop body of update_game, for place i of
\* ScanOrder: the buffer nc after it.  The count reads the grid cs; with 4
\* live neighbours an Alive cell's entry of the buffer is not written.
scan_cell(cs, nc, i) ==
    LET p == ScanOrder[i]
        live_neighbours == living_neighbours(cs, p.x, p.y, p.z)
    IN  IF is_alive(cs[p.y][p.x][p.z])
        THEN IF live_neighbours < 3 THEN set_cell(nc, p.x, p.y, p.z, "Dead")
             ELSE IF live_neighbours = 3 \/ live_neighbours = 5
                  THEN set_cell(nc, p.x, p.y, p.z, "Alive")
             ELSE IF live_neighbours > 5 THEN set_cell(nc, p.x, p.y, p.z, "Dead")
             ELSE nc
        ELSE IF live_neighbours = 5 THEN set_cell(nc, p.x, p.y, p.z, "Alive")
             ELSE set_cell(nc, p.x, p.y, p.z, "Dead")

\* main.rs:167-169, game.rs:151: the tick is due: reset the progress, enter
\* update_game and allocate its all-Dead buffer
ScanBegin ==
    /\ pc = "tick" /\ ~panicked
    /\ tick_due(tick_progress)
    /\ tick_progress' = reset_progress(tick_progress)
    /\ new_cells' = GameOfLife_new
    /\ scan_at' = 1
    /\ pc' = "scan"
    /\ UNCHANGED <<cells, cursor, instance_offsets, tick_speed, paused, random_cursor,
                   panicked, last_access, nsteps, inputs>>

\* game.rs:153-174: one pass of the loop body
ScanCell ==
    /\ pc = "scan"
    /\ scan_at <= Len(ScanOrder)
    /\ new_cells' = scan_cell(cells, new_cells, scan_at)
    /\ scan_at' = scan_at + 1
    /\ UNCHANGED <<cells, cursor, instance_offsets, tick_progress, tick_speed, paused,
                   random_cursor, pc, panicked, last_access, nsteps, inputs>>

\* game.rs:178: the loops are done: self.cells = new_cells
ScanEnd ==
    /\ pc = "scan"
    /\ scan_at > Len(ScanOrder)
    /\ cells' = new_cells
    /\ new_cells' = NoBuffer
    /\ scan_at' = 0
    /\ nsteps' = 1
    /\ pc' = "render"
    /\ UNCHANGED <<cursor, instance_offsets, tick_progress, tick_speed, paused,
                   random_cursor, panicked, last_access, inputs>>

\* The frame loop with no key pressed, update_game taken one cell at a time.
ScanNext ==
    \/ ScanBegin
    \/ ScanCell
    \/ ScanEnd
    \/ \E dt \in Deltas : TickWait(dt)
    \/ Render /\ UNCHANGED inputs
    \/ EndFrame

SpecScan == InitSeeded /\ [][ScanNext]_vars

\* ================================================================= claims

\* ----------------------------------------------------------------- C1
\* C1: every coordinate passed to a Grid read or write lies in [0, N) on each
\* axis, including those flip_at_cursor and Cursor::render pass after any
\* sequence of cursor moves.  (Stated of the coordinates the cursor code last
\* passed to cell / set_cell.)
C1_GridAccessInArena ==
    last_access # NoAccess =>
        \A i \in 1 .. 3 : last_access[i][1] = 0 /\ last_access[i][2] < ARENA_SIZE

\* ----------------------------------------------------------------- C2
\* C2: the boundary normalization of the neighbour counter gives
\* normalize(0, -1) = N-1 and normalize(N-1, +1) = 0.  (Stated of every state
\* in which a due tick is about to run the neighbour counter over the grid.)
C2_BoundaryRoundTrip ==
    (pc = "tick" /\ tick_progress >= MAX_TICK_PROGRESS) =>
        /\ clamp_coords(0 + (-1)) = ARENA_SIZE - 1
        /\ clamp_coords((ARENA_SIZE - 1) + 1) = 0

\* ----------------------------------------------------------------- C3
\* The cells of the 3 x 3 x 3 block around <<x, y, z>>, without <<x, y, z>>.
Around(x, y, z) ==
    { c \in AllCells :
        /\ c # <<x, y, z>>
        /\ c[1] - x \in -1 .. 1
        /\ c[2] - y \in -1 .. 1
        /\ c[3] - z \in -1 .. 1 }

Interior == 1 .. (ARENA_SIZE - 2)

\* C3: for every cell off the arena boundary, living_neighbours is the number
\* of Alive cells among its 26 adjacent cells; the state of the centre cell
\* does not affect the count; the test's grid gives living_neighbours(3,3,3) = 3.
C3_InteriorNeighbourCount ==
    /\ \A x \in Interior, y \in Interior, z \in Interior :
          /\ living_neighbours(cells, x, y, z)
                = Cardinality({ c \in Around(x, y, z) : cells[c[2]][c[1]][c[3]] = "Alive" })
          /\ living_neighbours(set_cell(cells, x, y, z, "Alive"), x, y, z)
                = living_neighbours(set_cell(cells, x, y, z, "Dead"), x, y, z)
    /\ cells = GridOf(TestPattern) => living_neighbours(cells, 3, 3, 3) = 3

\* The test's grid, before it is stepped, with its count of 3 at (3,3,3).
C3_Witness ==
    /\ pc = "tick"
    /\ cells = GridOf({ <<3, 4, 3>>, <<3, 4, 4>>, <<2, 2, 3>> })
    /\ cells[3][3][3] = "Dead"
    /\ living_neighbours(cells, 3, 3, 3) = 3

\* ----------------------------------------------------------------- C4
\* C4: for every cell of the arena (interior, face, edge, corner) and every
\* grid, living_neighbours is in [0, 26].
C4_NeighbourCountRange ==
    \A x \in Index, y \in Index, z \in Index :
        living_neighbours(cells, x, y, z) \in 0 .. 26

\* The full arena: a corner cell and an interior cell both count 26.
C4_Witness ==
    /\ \A c \in AllCells : cells[c[2]][c[1]][c[3]] = "Alive"
    /\ living_neighbours(cells, 0, 0, 0) = 26
    /\ living_neighbours(cells, ARENA_SIZE - 1, 0, ARENA_SIZE - 1) = 26
    /\ living_neighbours(cells, 1, 1, 1) = 26

\* ----------------------------------------------------------------- C5
\* The rule table of the claim.
RuleTable(c, n) ==
    IF c = "Alive"
    THEN IF n = 3 \/ n = 5 THEN "Alive" ELSE "Dead"
    ELSE IF n = 5 THEN "Alive" ELSE "Dead"

\* C5: a generation step sets each cell to the rule table applied to its
\* pre-step state and pre-step live-neighbour count: Alive stays Alive iff
\* n is 3 or 5, Dead becomes Alive iff n is 5.
C5_StepAppliesRuleTable ==
    [][ (pc = "tick" /\ nsteps' = 1) =>
            \A x \in Index, y \in Index, z \in Index :
                cells'[y][x][z] = RuleTable(cells[y][x][z], living_neighbours(cells, x, y, z))
      ]_vars

\* A grid about to be stepped that holds an Alive cell with 4 live neighbours
\* (dies), a Dead cell with 5 (is born) and a Dead cell with 4 (stays Dead).
C5_Witness ==
    /\ pc = "tick"
    /\ tick_progress >= MAX_TICK_PROGRESS
    /\ \E c \in AllCells :
          cells[c[2]][c[1]][c[3]] = "Alive" /\ living_neighbours(cells, c[1], c[2], c[3]) = 4
    /\ \E c \in AllCells :
          cells[c[2]][c[1]][c[3]] = "Dead" /\ living_neighbours(cells, c[1], c[2], c[3]) = 5
    /\ \E c \in AllCells :
          cells[c[2]][c[1]][c[3]] = "Dead" /\ living_neighbours(cells, c[1], c[2], c[3]) = 4

\* ----------------------------------------------------------------- C6
\* C6: a frame that begins with progress >= threshold fires exactly one
\* generation step and sets progress to exactly 0, whatever the overshoot.
C6_DueFrameStepsOnceAndResets ==
    [][ (pc = "tick" /\ tick_progress >= MAX_TICK_PROGRESS) =>
            (tick_progress' = 0 /\ nsteps' = 1 /\ pc' = "render")
      ]_vars

\* The claim's example: speed 1, unpaused, one frame of 0.3 s (6 ticks) from
\* progress 0 has left progress at 0.3 s, above the threshold of 0.25 s, and
\* the next frame begins.
C6_Witness ==
    /\ pc = "tick"
    /\ tick_speed = 1
    /\ ~paused
    /\ tick_progress = 6
    /\ nsteps = 0

\* ----------------------------------------------------------------- C7
\* C7: while paused, no frame increases progress; once the pause holds with
\* progress below the threshold, progress stays below it and no frame steps
\* for as long as the pause lasts; the step that begins a pause leaves
\* progress as it was.  So a paused frame steps only when progress was at the
\* threshold before the pause began.
C7_PausedNeverAdvances ==
    [][ /\ (paused /\ pc = "tick") => tick_progress' <= tick_progress
        /\ (paused /\ paused' /\ tick_progress < MAX_TICK_PROGRESS) =>
              (tick_progress' < MAX_TICK_PROGRESS /\ (pc = "tick" => nsteps' = 0))
        /\ (~paused /\ paused') => tick_progress' = tick_progress
      ]_vars

\* A paused frame has run without a step, with progress part of the way.
C7_Witness ==
    /\ paused
    /\ pc = "render"
    /\ nsteps = 0
    /\ tick_progress > 0
    /\ tick_progress < MAX_TICK_PROGRESS

\* ----------------------------------------------------------------- C8
\* C8: at most one generation step fires per frame and never in two
\* consecutive frames: from a step until the next tick progress is 0, and the
\* frame after a step does not step.
C8_NoConsecutiveSteps ==
    /\ [](nsteps \in {0, 1} /\ (nsteps = 1 => tick_progress = 0))
    /\ [][ (pc = "tick" /\ nsteps = 1) => nsteps' = 0 ]_vars

\* The frame after a step begins, unpaused and at the top speed.
C8_Witness ==
    /\ pc = "tick"
    /\ nsteps = 1
    /\ ~paused
    /\ tick_speed = MAX_TICK_SPEED

\* ----------------------------------------------------------------- C9
\* C9 (as claimed): progress is non-negative and does not exceed the threshold.
C9_ProgressWithinThreshold ==
    tick_progress >= 0 /\ tick_progress <= MAX_TICK_PROGRESS

\* C9 (amended): progress is non-negative and stays below the threshold plus
\* one frame's largest accumulation, 5 * the largest deltaTime.
C9_ProgressBounded ==
    tick_progress >= 0 /\ tick_progress < MAX_TICK_PROGRESS + MAX_TICK_SPEED * MaxDelta

\* Progress has overshot the threshold.
C9_Witness ==
    tick_progress > MAX_TICK_PROGRESS /\ ~paused

\* ---------------------------------------------------------------- C10
\* C10: the tick speed is always an integer in [1, 5]; an increase adds one
\* but leaves 5 at 5, a decrease subtracts one but leaves 1 at 1.
C10_SpeedClamped ==
    /\ [](tick_speed \in 1 .. 5)
    /\ [][ /\ KeyKpAdd => tick_speed' = (IF tick_speed = 5 THEN 5 ELSE tick_speed + 1)
           /\ KeyKpSubtract => tick_speed' = (IF tick_speed = 1 THEN 1 ELSE tick_speed - 1)
         ]_vars

\* The speed is 5 while keys are handled: KpAdd is pressed at 5.
C10_Witness ==
    tick_speed = 5 /\ pc = "events"

\* ----------------------------------------------------------------- C11
\* The cells <<x, y, z>> the claim wants an instance for: Alive, and not at
\* the cursor's coordinates.
EmittedCells(cs, cur) ==
    { c \in AllCells :
        /\ cs[c[2]][c[1]][c[3]] = "Alive"
        /\ <<cur.x, cur.y, cur.z>> # <<u32_from(c[1]), u32_from(c[2]), u32_from(c[3])>> }

\* The position of the instance of cell c, in units of cell_size.
InstanceOf(c) == <<to_real_coords(c[1]), to_real_coords(c[2]), to_real_coords(c[3])>>

\* C11: the instance list GameOfLife::render leaves holds exactly one instance
\* for every Alive cell whose coordinates differ from the cursor's and none
\* for any other cell: the cursor's cell is left out even when Alive, and
\* nothing of the previous frame's list remains.
C11_InstanceListExact ==
    [][ pc = "render" =>
            LET want == EmittedCells(cells, cursor)
            IN  /\ Len(instance_offsets') = Cardinality(want)
                /\ \A c \in want :
                      \E i \in 1 .. Len(instance_offsets') : instance_offsets'[i] = InstanceOf(c)
      ]_vars

\* Just after game.render: two cells are Alive, one of them under the cursor
\* (which has moved off the centre), and the list holds the other one only;
\* the frame before, the list was rendered from a different grid.
C11_Witness ==
    /\ pc = "events"
    /\ inputs = MaxInputs
    /\ cursor # Cursor_new
    /\ CursorInArena(cursor)
    /\ cells[u32_as_usize(cursor.y)][u32_as_usize(cursor.x)][u32_as_usize(cursor.z)] = "Alive"
    /\ Cardinality({ c \in AllCells : cells[c[2]][c[1]][c[3]] = "Alive" }) = 2
    /\ instance_offsets = << <<0, 0, 0>> >>

\* ----------------------------------------------------------------- C12
\* C12: a generation step on an all-Dead grid yields an all-Dead grid; from
\* the freshly constructed grid, any number of generation steps with no flip
\* in between leaves every cell Dead.  (The scheduler specification has no
\* flip: its grid is the fresh grid after however many steps.)
C12_AllDeadStaysAllDead ==
    \A x \in Index, y \in Index, z \in Index : cells[y][x][z] = "Dead"

\* A second or later step has just run on the fresh grid: the frame's tick
\* stepped while the speed was raised, which takes an earlier frame's key.
C12_Witness ==
    /\ nsteps = 1
    /\ pc = "render"
    /\ ~paused
    /\ tick_speed > 1
    /\ cells = GameOfLife_new

\* ----------------------------------------------------------------- C13
\* C13: with the cursor inside the arena and not moved in between, two
\* flip_at_cursor calls in succession restore the grid exactly.  (Stated of
\* every Enter key: it changes the grid, and one more flip_at_cursor at the
\* same cursor gives back the grid the key found.)
C13_FlipTwiceRestores ==
    [][ (KeyEnter /\ CursorInArena(cursor)) =>
            /\ cells' # cells
            /\ cursor' = cursor
            /\ flip_at_cursor(cells', cursor') = cells
      ]_vars

\* An Enter key has flipped the cell under a cursor that had moved off the
\* centre, and a further Enter key can follow in the same event drain.
C13_Witness ==
    /\ pc = "events"
    /\ ~panicked
    /\ inputs < MaxInputs
    /\ cursor # Cursor_new
    /\ CursorInArena(cursor)
    /\ last_access = CursorCoords(cursor)
    /\ cells[u32_as_usize(cursor.y)][u32_as_usize(cursor.x)][u32_as_usize(cursor.z)] = "Alive"

\* ----------------------------------------------------------------- C14
\* C14: the generation step is deterministic and depends only on the current
\* grid: two runs that start a step from equal grids end it with equal grids,
\* whatever cursor, tick progress, speed and paused flag each run has.
\* (Stated of one run: every due tick, in whatever state of the cursor, the
\* progress, the speed and the pause flag it is taken, leaves the grid that
\* one function of the pre-step grid alone gives; two runs are two such ticks.)
C14_StepDependsOnGridOnly ==
    [][ (pc = "tick" /\ ~panicked /\ tick_progress >= MAX_TICK_PROGRESS) =>
            cells' = update_game(cells)
      ]_vars

\* A due tick is about to step a grid with an Alive cell, in a run whose
\* cursor has left the centre and which is not paused: the first step of
\* every run finds the same fresh grid with the cursor at the centre, paused.
C14_Witness ==
    /\ pc = "tick"
    /\ ~panicked
    /\ tick_progress >= MAX_TICK_PROGRESS
    /\ cursor # Cursor_new
    /\ ~paused
    /\ \E c \in AllCells : cells[c[2]][c[1]][c[3]] = "Alive"

\* ----------------------------------------------------------------- C15
\* The cursors one unit move away from cur: one axis, one step up or down.
UnitMoves(cur) ==
    UNION { { [cur EXCEPT !.x = u32_add_i32(cur.x, d)],
              [cur EXCEPT !.y = u32_add_i32(cur.y, d)],
              [cur EXCEPT !.z = u32_add_i32(cur.z, d)] } : d \in {-1, 1} }

\* The grid cs with the one cell under cur turned into its opposite.
Toggled(cs, cur) ==
    [y \in Index |-> [x \in Index |-> [z \in Index |->
        IF <<cur.x, cur.y, cur.z>> = <<u32_from(x), u32_from(y), u32_from(z)>>
        THEN IF cs[y][x][z] = "Alive" THEN "Dead" ELSE "Alive"
        ELSE cs[y][x][z]]]]

\* What one key command may do to cursor and grid: nothing, one unit move, or
\* one flip of the cursor's cell.
OneCommandEffect ==
    \/ cursor' = cursor /\ cells' = cells
    \/ cursor' \in UnitMoves(cursor) /\ cells' = cells
    \/ cursor' = cursor /\ cells' = Toggled(cells, cursor)

\* C15: cursor and grid change only as 1:1 responses to input commands (one
\* unit move per move command, one flip per flip command) or, for the grid,
\* by a generation step: outside the event handlers and the due tick, no part
\* of a frame changes the cursor or the grid.
C15_OnlyCommandsAndSteps ==
    [][ /\ pc = "events" => OneCommandEffect
        /\ (pc = "tick" /\ tick_progress >= MAX_TICK_PROGRESS) => cursor' = cursor
        /\ (pc # "events" /\ ~(pc = "tick" /\ tick_progress >= MAX_TICK_PROGRESS)) =>
              cursor' = cursor /\ cells' = cells
      ]_vars

\* C15, amended: as C15, but with random-cursor mode on, the tick of a frame
\* that does not step makes one unit move of the cursor and then one flip of
\* the cell under it, with no command delivered.
C15_OnlyCommandsStepsAndRandomMode ==
    [][ /\ pc = "events" => OneCommandEffect
        /\ (pc = "tick" /\ tick_progress >= MAX_TICK_PROGRESS) => cursor' = cursor
        /\ (pc = "tick" /\ tick_progress < MAX_TICK_PROGRESS /\ random_cursor) =>
              \/ cursor' = cursor /\ cells' = cells
              \/ /\ cursor' \in UnitMoves(cursor)
                 /\ cells' = IF panicked' THEN cells ELSE Toggled(cells, cursor')
        /\ (pc = "tick" /\ tick_progress < MAX_TICK_PROGRESS /\ ~random_cursor) =>
              cursor' = cursor /\ cells' = cells
        /\ pc = "render" => cursor' = cursor /\ cells' = cells
      ]_vars

\* Random-cursor mode has moved the cursor and flipped the cell under it in the
\* tick of a frame that did not step; two cells are Alive by now.
C15_Witness ==
    /\ random_cursor
    /\ nsteps = 0
    /\ pc = "events"
    /\ inputs = MaxInputs
    /\ cursor # Cursor_new
    /\ Cardinality({ c \in AllCells : cells[c[2]][c[1]][c[3]] = "Alive" }) = 2

\* ----------------------------------------------------------------- C17
\* C17: the boundary normalization mirrors a coordinate one step out of range
\* across the nearest edge: for v = -1 the result is within distance 1 of the
\* low edge 0, for v = N within distance 1 of the high edge N - 1, so that a
\* cell on one face has no neighbour near the opposite face.  (Stated of every
\* state in which a due tick is about to count the neighbours of the face
\* cells.)
C17_MirrorAtNearestEdge ==
    (pc = "tick" /\ tick_progress >= MAX_TICK_PROGRESS) =>
        /\ clamp_coords(-1) <= 1
        /\ clamp_coords(ARENA_SIZE) >= ARENA_SIZE - 2
        /\ \A x \in Index, y \in Index, z \in Index :
              (x = 0 /\ cells[y][x][z] = "Dead"
                 /\ \A c \in AllCells : cells[c[2]][c[1]][c[3]] = "Alive" => c[1] >= ARENA_SIZE - 2)
              => living_neighbours(cells, x, y, z) = 0

\* ----------------------------------------------------------------- C18
\* C18: for every cell coordinate c in [0, N) and every offset in {-1, 0, 1},
\* clamp_coords(c + offset) is in [0, N), so that its conversion to usize
\* succeeds and living_neighbours and update_game index the grid in range for
\* every cell.  (Stated of every state in which a due tick is about to run
\* update_game over the grid.)
C18_NeighbourCoordinatesInArena ==
    (pc = "tick" /\ tick_progress >= MAX_TICK_PROGRESS) =>
        \A c \in Index, offset \in -1 .. 1 :
            /\ clamp_coords(c + offset) >= 0
            /\ clamp_coords(c + offset) < ARENA_SIZE

\* update_game has just counted the neighbours of every cell, and a cell on a
\* face of the arena, whose neighbour coordinates leave [0, N), is Alive in
\* the grid it produced.
C18_Witness ==
    /\ pc = "render"
    /\ nsteps = 1
    /\ \E c \in AllCells :
          /\ c[1] = 0 \/ c[2] = ARENA_SIZE - 1
          /\ cells[c[2]][c[1]][c[3]] = "Alive"

\* ----------------------------------------------------------------- C19
\* C19: flip_at_cursor with the cursor inside the arena changes exactly one
\* cell, the one at the cursor's coordinates, to its opposite state, at once
\* and without applying the rule; every other cell, the cursor, the tick
\* progress, the speed and the paused flag are unchanged.  (Stated of the
\* Enter key, whose handler is the flip_at_cursor call.)
C19_FlipChangesOneCell ==
    [][ (KeyEnter /\ CursorInArena(cursor)) =>
            /\ cells' = Toggled(cells, cursor)
            /\ \A x \in Index, y \in Index, z \in Index :
                  (cells'[y][x][z] # cells[y][x][z]) <=>
                      (x = u32_as_usize(cursor.x) /\ y = u32_as_usize(cursor.y)
                         /\ z = u32_as_usize(cursor.z))
            /\ cursor' = cursor
            /\ tick_progress' = tick_progress
            /\ tick_speed' = tick_speed
            /\ paused' = paused
      ]_vars

\* An Enter key has just turned the Dead cell under the cursor Alive, at a
\* cursor whose x and y differ, in a grid that holds another Alive cell, which
\* the rule would have killed.
C19_Witness ==
    /\ pc = "events"
    /\ ~panicked
    /\ inputs = MaxInputs
    /\ CursorInArena(cursor)
    /\ cursor.x # cursor.y
    /\ last_access = CursorCoords(cursor)
    /\ cells[u32_as_usize(cursor.y)][u32_as_usize(cursor.x)][u32_as_usize(cursor.z)] = "Alive"
    /\ Cardinality({ c \in AllCells : cells[c[2]][c[1]][c[3]] = "Alive" }) = 2
    /\ ~random_cursor

\* ----------------------------------------------------------------- C20
\* C20: within every frame the order is: the tick decision and, if due, the
\* whole generation step; then the emission of the instance list from grid and
\* cursor; then the input commands.  The list emitted in a frame shows the
\* grid as that frame's tick left it, and a flip or move a key delivers in
\* frame k shows in the list, and in a step, from frame k + 1 on.
C20_FrameOrder ==
    [][ /\ pc' # pc =>
              <<pc, pc'>> \in { <<"tick", "render">>, <<"render", "events">>,
                                <<"events", "tick">> }
        /\ pc = "tick" => instance_offsets' = instance_offsets
        /\ pc = "render" =>
              /\ cells' = cells /\ cursor' = cursor /\ nsteps' = nsteps
              /\ Len(instance_offsets') = Cardinality(EmittedCells(cells', cursor'))
              /\ \A i \in 1 .. Len(instance_offsets') :
                    \E c \in EmittedCells(cells', cursor') : instance_offsets'[i] = InstanceOf(c)
        /\ pc = "events" =>
              /\ instance_offsets' = instance_offsets
              /\ nsteps' = nsteps
              /\ (cells' # cells \/ cursor' # cursor) => pc' = "events"
        /\ nsteps' # nsteps => pc = "tick"
      ]_vars

\* In a frame that did not step, after the emission, a key has changed what
\* the list would hold: the list still is the one emitted before the key.
C20_Witness ==
    /\ pc = "events"
    /\ ~panicked
    /\ nsteps = 0
    /\ instance_offsets # render(cells, cursor)

\* ----------------------------------------------------------------- C16
\* C16: the generation step is synchronous: the cell-by-cell scan of
\* update_game, writing into a fresh all-Dead buffer and replacing the grid
\* only after the whole scan, yields the grid that applying the rule to all
\* cells at once on the pre-step grid yields; no cell's new state depends on
\* the new state of another, and the grid is never part old, part new.
C16_ScanIsSynchronous ==
    [][ /\ (pc = "scan" /\ pc' = "scan") => cells' = cells
        /\ (pc = "scan" /\ pc' # "scan") =>
              /\ cells' = update_game(cells)
              /\ \A x \in Index, y \in Index, z \in Index :
                    cells'[y][x][z] =
                        RuleTable(cells[y][x][z], Cardinality({ o \in Offsets :
                            cells[clamp_coords(y + o[1])][clamp_coords(x + o[2])]
                                 [clamp_coords(z + o[3])] = "Alive" }))
        /\ cells' # cells => pc = "scan" /\ pc' = "render"
      ]_vars

\* The scan is under way and is about to visit a cell with a neighbour whose
\* new state, already in the buffer, differs from its state in the grid.
C16_Witness ==
    /\ pc = "scan"
    /\ scan_at <= Len(ScanOrder)
    /\ \E i \in 1 .. (scan_at - 1) :
          /\ new_cells[ScanOrder[i].y][ScanOrder[i].x][ScanOrder[i].z]
                # cells[ScanOrder[i].y][ScanOrder[i].x][ScanOrder[i].z]
          /\ \E o \in Offsets :
                /\ clamp_coords(ScanOrder[scan_at].y + o[1]) = ScanOrder[i].y
                /\ clamp_coords(ScanOrder[scan_at].x + o[2]) = ScanOrder[i].x
                /\ clamp_coords(ScanOrder[scan_at].z + o[3]) = ScanOrder[i].z

\* ----------------------------------------------------------------- C21
\* C21: if the simulation is unpaused and stays unpaused, and frames keep
\* arriving with a delta_time bounded below by a positive constant, then at
\* every speed in 1 ..= 5 a generation step eventually fires, and fires again
\* after every step.
C21_StepsRecurWhileUnpaused ==
    (<>[](~paused)) => []<>(pc = "render" /\ nsteps = 1)

\* Unpaused at the lowest speed, a tick is about to find the progress part way
\* to the threshold: frames have accumulated, the step is still to come.
C21_Witness ==
    /\ pc = "tick"
    /\ ~paused
    /\ tick_speed = MIN_TICK_SPEED
    /\ tick_progress > 0
    /\ tick_progress < MAX_TICK_PROGRESS

\* ----------------------------------------------------------------- C22
\* The cells <<x, y, z>> living_neighbours visits for the cell <<x, y, z>>.
Visited(x, y, z) ==
    { <<clamp_coords(x + o[2]), clamp_coords(y + o[1]), clamp_coords(z + o[3])>> :
        o \in Offsets }

\* C22: for N >= 4, the 26 normalized neighbour coordinates living_neighbours
\* visits for a cell are pairwise distinct cells and none is the cell itself,
\* for every cell, boundary cells included: no Alive cell is counted twice and
\* no cell counts itself.  (Stated of every state in which a due tick is about
\* to count the neighbours of every cell of the grid.)
C22_NeighboursDistinct ==
    (pc = "tick" /\ tick_progress >= MAX_TICK_PROGRESS /\ ARENA_SIZE >= 4) =>
        \A x \in Index, y \in Index, z \in Index :
            /\ Cardinality(Visited(x, y, z)) = 26
            /\ <<x, y, z>> \notin Visited(x, y, z)
            /\ cells[y][x][z] = "Alive" =>
                  living_neighbours(cells, x, y, z)
                      < Cardinality({ c \in AllCells : cells[c[2]][c[1]][c[3]] = "Alive" })

\* A due tick is about to count in a grid with one Alive cell, which a corner
\* cell reaches through normalized coordinates on all three axes: the corner's
\* count is 1, the Alive cell's own count is 0.
C22_Witness ==
    /\ pc = "tick"
    /\ tick_progress >= MAX_TICK_PROGRESS
    /\ Cardinality({ c \in AllCells : cells[c[2]][c[1]][c[3]] = "Alive" }) = 1
    /\ cells[ARENA_SIZE - 2][ARENA_SIZE - 2][ARENA_SIZE - 2] = "Alive"
    /\ living_neighbours(cells, 0, 0, 0) = 1
    /\ living_neighbours(cells, ARENA_SIZE - 2, ARENA_SIZE - 2, ARENA_SIZE - 2) = 0

====
